---- MODULE Spec2Model ----
(***************************************************************************)
(* A model of discuit-ts: the DiscuitClient request/session pipeline       *)
(* (src/src/DiscuitClient.ts, the class at lines 292-673) and the Post and *)
(* Comment wrappers (src/src/User.ts lines 105-284, src/unnamed/part_002   *)
(* lines 659-811).                                                         *)
(*                                                                         *)
(* JavaScript values.  A string is a sequence of atoms: single characters  *)
(* where the code inspects the text (cookies, headers), whole tokens       *)
(* ("posts", "/", an id) where it only concatenates (URLs, field values).  *)
(* null, undefined, true and false are values distinct from every string.  *)
(***************************************************************************)
EXTENDS Naturals, Integers, Sequences, FiniteSets, TLC

Null      == <<"#null">>
Undefined == <<"#undefined">>
JSTrue    == <<"#true">>
JSFalse   == <<"#false">>

\* ToBoolean of the values the model uses (`!x`, `x || y`, `x ? a : b`).
ToBoolean(v) == v \notin {Null, Undefined, JSFalse, <<>>}

\* `${v}` in a template literal.
TemplateStr(v) ==
  IF v = Null THEN <<"n", "u", "l", "l">>
  ELSE IF v = Undefined THEN <<"u", "n", "d", "e", "f", "i", "n", "e", "d">>
  ELSE v

\* String.prototype.startsWith
StartsWith(s, p) == Len(s) >= Len(p) /\ SubSeq(s, 1, Len(p)) = p

\* String.prototype.split with a one-character separator.
RECURSIVE Split(_, _)
Split(s, sep) ==
  IF \A i \in 1..Len(s) : s[i] # sep
  THEN <<s>>
  ELSE LET i == CHOOSE k \in 1..Len(s) :
                  s[k] = sep /\ \A j \in 1..(k - 1) : s[j] # sep
       IN  <<SubSeq(s, 1, i - 1)>> \o Split(SubSeq(s, i + 1, Len(s)), sep)

\* arr[i] with JavaScript's zero-based index; undefined past the end.
At(arr, i) == IF i + 1 <= Len(arr) THEN arr[i + 1] ELSE Undefined

\* String.prototype.toUpperCase on the method names the client uses.
ToUpperCase(m) ==
  CASE m = "get"    -> "GET"
    [] m = "post"   -> "POST"
    [] m = "put"    -> "PUT"
    [] m = "delete" -> "DELETE"
    [] OTHER        -> m

(***************************************************************************)
(* Session capture: handleResponse                                         *)
(***************************************************************************)
CsrfCookiePrefix == <<"c", "s", "r", "f", "t", "o", "k", "e", "n", "=">>
SidCookiePrefix  == <<"S", "I", "D", "=">>

\* A variant that takes an emptied cookie for a cleared credential.
CookieValueOrNull(cookie) ==
  LET v == At(Split(At(Split(cookie, ";"), 0), "="), 1)
  IN  IF v = <<>> THEN Null ELSE v

\* cookie.split(";")[0].split("=")[1]
CookieValue(cookie) == At(Split(At(Split(cookie, ";"), 0), "="), 1)

\* A variant that matches the entries by the prefixes sid= and csrfToken=.
RECURSIVE ScanCookiesOtherCase(_, _)
ScanCookiesOtherCase(cookies, sess) ==
  IF cookies = <<>> THEN sess
  ELSE LET cookie == Head(cookies)
           next == IF StartsWith(cookie, <<"c", "s", "r", "f", "T", "o", "k",
                                           "e", "n", "=">>)
                   THEN [sess EXCEPT !.csrfToken = CookieValue(cookie)]
                   ELSE IF StartsWith(cookie, <<"s", "i", "d", "=">>)
                   THEN [sess EXCEPT !.sid = CookieValue(cookie)]
                   ELSE sess
       IN  ScanCookiesOtherCase(Tail(cookies), next)

\* The loop over the Set-Cookie entries; sess is [sid, csrfToken].
RECURSIVE ScanCookies(_, _)
ScanCookies(cookies, sess) ==
  IF cookies = <<>> THEN sess
  ELSE LET cookie == Head(cookies)
           next == IF StartsWith(cookie, CsrfCookiePrefix)
                   THEN [sess EXCEPT !.csrfToken = CookieValue(cookie)]
                   ELSE IF StartsWith(cookie, SidCookiePrefix)
                   THEN [sess EXCEPT !.sid = CookieValue(cookie)]
                   ELSE sess
       IN  ScanCookies(Tail(cookies), next)

\* A variant that keeps a credential once it holds one.
handleResponseKeepFirst(sess, response) ==
  LET scanned == ScanCookies(response.cookies, sess)
      headerCsrfToken == response.csrfHeader
      csrf == IF ToBoolean(headerCsrfToken) THEN headerCsrfToken
                                            ELSE scanned.csrfToken
  IN  [sid       |-> IF sess.sid # Null THEN sess.sid ELSE scanned.sid,
       csrfToken |-> IF sess.csrfToken # Null THEN sess.csrfToken ELSE csrf]

\* A variant that reads the csrf-token header only when the response has
\* Set-Cookie entries.
handleResponseCookiesFirst(sess, response) ==
  LET scanned == ScanCookies(response.cookies, sess)
      headerCsrfToken == response.csrfHeader
  IN  IF response.cookies # <<>> /\ ToBoolean(headerCsrfToken)
      THEN [scanned EXCEPT !.csrfToken = headerCsrfToken]
      ELSE scanned

\* response is [status, cookies, csrfHeader]: the status, the Set-Cookie
\* entries (headers.getAll) and the csrf-token header (headers.get: null
\* when absent).
handleResponse(sess, response) ==
  LET scanned == ScanCookies(response.cookies, sess)
      headerCsrfToken == response.csrfHeader
  IN  IF ToBoolean(headerCsrfToken)
      THEN [scanned EXCEPT !.csrfToken = headerCsrfToken]
      ELSE scanned

\* A variant that takes every status below 500 for a success.
ResponseOkBelow500(response) == response.status < 500

\* Response.ok
ResponseOk(response) == response.status >= 200 /\ response.status <= 299

(***************************************************************************)
(* Construction and request building                                       *)
(***************************************************************************)
DefaultBaseURL == <<"http://discuit.net", "/", "api", "/">>

\* A variant that appends a "/" to every base URL.
EnsureTrailingSlashAppend(s) == s \o <<"/">>

\* s.replace(/\/?$/, "/"): one trailing "/" whether or not s had one.
EnsureTrailingSlash(s) ==
  IF Len(s) > 0 /\ s[Len(s)] = "/" THEN s ELSE s \o <<"/">>

\* new DiscuitClient(config): the fields of the new instance.
constructor(config) ==
  LET replaced == IF config.baseURL = Undefined
                  THEN Undefined
                  ELSE EnsureTrailingSlash(config.baseURL)
  IN  [baseURL   |-> IF ToBoolean(replaced) THEN replaced ELSE DefaultBaseURL,
       sid       |-> Null,
       csrfToken |-> Null]

\* The index of the last "/" of a URL (0 when it has none).
LastSlash(u) ==
  IF \A i \in 1..Len(u) : u[i] # "/" THEN 0
  ELSE CHOOSE i \in 1..Len(u) :
         u[i] = "/" /\ \A j \in (i + 1)..Len(u) : u[j] # "/"

\* new URL(url, base) for a relative path url: the base up to its last "/"
\* (an origin with no path gets one), then url.
ResolveURL(url, base) ==
  IF LastSlash(base) = 0 THEN base \o <<"/">> \o url
  ELSE SubSeq(base, 1, LastSlash(base)) \o url

\* A variant that leaves a null credential out of the header.
CookieHeaderSkipNull(client) ==
  (IF client.sid = Null THEN <<>> ELSE SidCookiePrefix \o client.sid)
    \o <<";", " ">>
    \o (IF client.csrfToken = Null THEN <<>>
        ELSE CsrfCookiePrefix \o client.csrfToken)

\* `SID=${this.sid}; csrftoken=${this.csrfToken}`
CookieHeader(client) ==
  SidCookiePrefix \o TemplateStr(client.sid) \o <<";", " ">>
    \o CsrfCookiePrefix \o TemplateStr(client.csrfToken)

\* A variant that sets the header on a GET too.
CsrfHeaderEveryMethod(client, method) ==
  IF ToBoolean(client.csrfToken) THEN client.csrfToken ELSE Undefined

\* The X-Csrf-Token header (undefined: not set).
CsrfHeader(client, method) ==
  IF ToUpperCase(method) # "GET" /\ ToBoolean(client.csrfToken)
  THEN client.csrfToken
  ELSE Undefined

\* An array literal: a function on 0..length-1.
Array(s) == [i \in 0..(Len(s) - 1) |-> s[i + 1]]

\* What request() hands to fetch: the method, the resolved URL with the
\* appended query parameters (an array of <<key, value>>), the headers and
\* the body.
BuildRequest(client, method, url, options) ==
  [method  |-> method,
   url     |-> ResolveURL(url, client.baseURL),
   search  |-> IF options.params = Undefined THEN Array(<<>>)
                                             ELSE options.params,
   headers |-> [Cookie     |-> CookieHeader(client),
                XCsrfToken |-> CsrfHeader(client, method)],
   body    |-> options.body]

\* JSON.stringify of an object literal: properties whose value is undefined
\* are left out.
JSONStringify(obj) ==
  [k \in {f \in DOMAIN obj : obj[f] # Undefined} |-> obj[k]]

NoOptions == [params |-> Undefined, body |-> Undefined]

(***************************************************************************)
(* The operations: the call each one hands to request()                    *)
(***************************************************************************)
initializeCall ==
  [method |-> "GET", url |-> <<"_initial">>, options |-> NoOptions]

loginCall(username, password) ==
  [method  |-> "POST", url |-> <<"_login">>,
   options |-> [params |-> Undefined,
                body   |-> JSONStringify([username |-> username,
                                          password |-> password])]]

getPostCall(id) ==
  [method |-> "GET", url |-> <<"posts", "/">> \o TemplateStr(id),
   options |-> NoOptions]

\* A variant without the guard on image posts.
newPostErrorLinkOnly(data) ==
  IF data.type = <<"link">> /\ ~ToBoolean(data.link)
  THEN "Link is required for link posts."
  ELSE ""

\* The two guards of newPost: the error thrown, or "" when it goes on.
newPostError(data) ==
  IF data.type = <<"link">> /\ ~ToBoolean(data.link)
  THEN "Link is required for link posts."
  ELSE IF data.type = <<"image">> /\ ~ToBoolean(data.image)
  THEN "Image is required for image posts."
  ELSE ""

newPostCall(data) ==
  [method  |-> "POST", url |-> <<"posts">>,
   options |-> [params |-> Undefined, body |-> JSONStringify(data)]]

postVoteCall(id, up) ==
  [method  |-> "POST", url |-> <<"_postVote">>,
   options |-> [params |-> Undefined,
                body   |-> JSONStringify([postId |-> id, up |-> up])]]

upvotePostCall(id) == postVoteCall(id, JSTrue)

\* A variant that votes up.
downvotePostCallUp(id) == postVoteCall(id, JSTrue)

downvotePostCall(id) == postVoteCall(id, JSFalse)

\* A variant that ignores deleteAs.
deletePostCallNormal(id, deleteAs, deleteContent) ==
  [method  |-> "DELETE", url |-> <<"posts", "/">> \o TemplateStr(id),
   options |-> [params |->
                  Array(<< <<"deleteAs", <<"normal">> >>,
                           <<"deleteContent",
                             IF ToBoolean(deleteContent) THEN <<"true">>
                                                         ELSE <<"false">> >> >>),
                body   |-> Undefined]]

deletePostCall(id, deleteAs, deleteContent) ==
  [method  |-> "DELETE", url |-> <<"posts", "/">> \o TemplateStr(id),
   options |-> [params |->
                  Array(<< <<"deleteAs",
                             IF ToBoolean(deleteAs) THEN deleteAs
                                                    ELSE <<"normal">> >>,
                           <<"deleteContent",
                             IF ToBoolean(deleteContent) THEN <<"true">>
                                                         ELSE <<"false">> >> >>),
                body   |-> Undefined]]

updatePostCall(id, title, body) ==
  [method  |-> "PUT", url |-> <<"posts", "/">> \o TemplateStr(id),
   options |-> [params |-> Undefined,
                body   |-> JSONStringify([title |-> title, body |-> body])]]

commentCall(id, body, parentId) ==
  [method  |-> "POST",
   url     |-> <<"posts", "/">> \o TemplateStr(id) \o <<"/", "comments">>,
   options |-> [params |-> Undefined,
                body   |-> JSONStringify(
                             [body |-> body,
                              parentCommentId |->
                                IF ToBoolean(parentId) THEN parentId
                                                       ELSE Null])]]

commentVoteCall(id, up) ==
  [method  |-> "POST", url |-> <<"_commentVote">>,
   options |-> [params |-> Undefined,
                body   |-> JSONStringify([commentId |-> id, up |-> up])]]

upvoteCommentCall(id) == commentVoteCall(id, JSTrue)

downvoteCommentCall(id) == commentVoteCall(id, JSFalse)

deleteCommentCall(postId, id, deleteAs) ==
  [method  |-> "DELETE",
   url     |-> <<"posts", "/">> \o TemplateStr(postId)
                 \o <<"/", "comments", "/">> \o TemplateStr(id),
   options |-> [params |->
                  Array(<< <<"deleteAs",
                             IF ToBoolean(deleteAs) THEN deleteAs
                                                    ELSE <<"normal">> >> >>),
                body   |-> Undefined]]

updateCommentCall(postId, body, id) ==
  [method  |-> "PUT",
   url     |-> <<"posts", "/">> \o TemplateStr(postId)
                 \o <<"/", "comments", "/">> \o TemplateStr(id),
   options |-> [params |-> Undefined,
                body   |-> JSONStringify([body |-> body])]]

\* Number.prototype.toString for a natural number: its decimal digits.
RECURSIVE NumberToString(_)
NumberToString(n) ==
  LET digit == <<"0", "1", "2", "3", "4", "5", "6", "7", "8", "9">>[(n % 10) + 1]
  IN  IF n < 10 THEN <<digit>> ELSE NumberToString(n \div 10) \o <<digit>>

\* options?.key: undefined when the caller gave no options or no such key.
\* A missing options argument and {} are both the empty record.
Option(options, key) ==
  IF key \in DOMAIN options THEN options[key] ELSE Undefined

\* The entry appended for a key that is sent only when truthy.
OptionalParam(options, key) ==
  IF ToBoolean(Option(options, key)) THEN << <<key, options[key]>> >>
                                     ELSE <<>>

\* getPosts: the params record, in insertion order.  limit is a number:
\* it is sent when truthy (not 0), and "10" otherwise.
getPostsCall(options) ==
  [method  |-> "GET", url |-> <<"posts">>,
   options |->
     [params |->
        Array(<< <<"feed", IF ToBoolean(Option(options, "feed"))
                           THEN options.feed ELSE <<"home">> >>,
                 <<"sort", IF ToBoolean(Option(options, "sort"))
                           THEN options.sort ELSE <<"latest">> >> >>
              \o OptionalParam(options, "filter")
              \o OptionalParam(options, "communityId")
              \o OptionalParam(options, "next")
              \o << <<"limit", IF "limit" \in DOMAIN options
                                  /\ options.limit # 0
                               THEN NumberToString(options.limit)
                               ELSE <<"1", "0">> >> >>),
      body   |-> Undefined]]

(***************************************************************************)
(* The wrappers                                                            *)
(***************************************************************************)
\* Object.assign(target, source)
ObjectAssign(target, source) ==
  [f \in (DOMAIN target) \cup (DOMAIN source) |->
     IF f \in DOMAIN source THEN source[f] ELSE target[f]]

\* new Comment(data, client)
Comment(data, client) == ObjectAssign([client |-> client], data)

\* A variant that keeps the payload's comments as they are.
PostUnwrapped(data, client) == ObjectAssign([client |-> client], data)

\* new Post(data, client).  Every array, also the empty one, is truthy.
Post(data, client) ==
  LET assigned == ObjectAssign([client |-> client], data)
  IN  IF "comments" \in DOMAIN data /\ data.comments \notin {Null, Undefined}
      THEN [assigned EXCEPT !.comments =
              [i \in DOMAIN data.comments |->
                 Comment(data.comments[i], client)]]
      ELSE assigned

\* A variant that checks the CSRF token alone.
initializeErrorCsrfOnly(client) ==
  IF ~ToBoolean(client.csrfToken) THEN "Initialization failed" ELSE ""

\* The check initialize() makes once request() has returned: the error it
\* throws, or "" when it returns the payload.
initializeError(client) ==
  IF ~ToBoolean(client.csrfToken) \/ ~ToBoolean(client.sid)
  THEN "Initialization failed"
  ELSE ""

(***************************************************************************)
(* The inputs: configurations, arguments, responses, payloads              *)
(***************************************************************************)
Clients == {1, 2}

\* The most requests issued in one run.
MaxCalls == 2

ExampleOrg == <<"https://example.org">>

Configs ==
  {[baseURL |-> Undefined],
   [baseURL |-> ExampleOrg],
   [baseURL |-> ExampleOrg \o <<"/">>],
   [baseURL |-> ExampleOrg \o <<"/", "api">>]}

\* The configuration of each client in the runs on the session.
SessionConfig == [c \in Clients |-> IF c = 1 THEN [baseURL |-> ExampleOrg]
                                             ELSE [baseURL |-> Undefined]]

\* Set-Cookie entries: SID=a, SID=b; P, SID=a=b, SID=; M (a cleared
\* cookie), csrftoken=t, csrftoken=u=v; P, and one the client ignores.
CookieSidA     == SidCookiePrefix \o <<"a">>
CookieSidB     == SidCookiePrefix \o <<"b", ";", " ", "P">>
CookieSidEq    == SidCookiePrefix \o <<"a", "=", "b">>
CookieSidEmpty == SidCookiePrefix \o <<";", " ", "M">>
CookieCsrfT    == CsrfCookiePrefix \o <<"t">>
CookieCsrfEmpty == CsrfCookiePrefix \o <<";", " ", "M">>
CookieCsrfEq   == CsrfCookiePrefix \o <<"u", "=", "v", ";", " ", "P">>
CookieOther    == <<"s", "i", "d", "=", "z">>

\* The Set-Cookie entries of a response: none, one SID, both cleared, both
\* credentials, one CSRF token, two SID entries, an entry the client ignores.
CookieLists ==
  {<<>>, <<CookieSidEq>>, <<CookieCsrfEmpty, CookieSidEmpty>>,
   <<CookieCsrfT, CookieSidA>>, <<CookieCsrfT>>,
   <<CookieSidA, CookieSidB>>, <<CookieOther>>}

CsrfHeaders == {Null, <<>>, <<"h">>}

Statuses == {200, 404}

\* The responses: every list of entries without a csrf-token header, and the
\* header, empty or not, with no entry and with both credentials.
Responses ==
  [status : Statuses, cookies : CookieLists, csrfHeader : {Null}]
    \cup [status : Statuses, cookies : {<<>>, <<CookieCsrfT, CookieSidA>>},
          csrfHeader : CsrfHeaders \ {Null}]

\* The responses of the runs on the requests: one that sets both
\* credentials and one that sets none, each with and without success.
WireResponses ==
  [status : {200, 404},
   cookies : {<<>>, <<CookieCsrfEq, CookieSidB>>},
   csrfHeader : {Null}]

PostIds == {<<"abc123">>, <<"1">>}

CommentA ==
  [id |-> <<"c1">>, postId |-> <<"1">>, postPublicId |-> <<"abc123">>,
   body |-> <<"first">>, upvotes |-> 2]

CommentB ==
  [id |-> <<"c2">>, postId |-> <<"1">>, postPublicId |-> <<"abc123">>,
   body |-> <<"second">>, upvotes |-> 0]

PostBase ==
  [id |-> <<"1">>, publicId |-> <<"abc123">>, title |-> <<"hello">>,
   body |-> Null, upvotes |-> 1, downvotes |-> 0]

\* The posts a server returns: without a comments field, with comments
\* null, empty, and holding one and two comments.
PostPayloads ==
  {PostBase,
   [PostBase EXCEPT !.id = <<"2">>, !.publicId = <<"xyz789">>,
                    !.body = <<"text">>, !.upvotes = 5, !.downvotes = 3],
   ObjectAssign(PostBase, [comments |-> Null]),
   ObjectAssign(PostBase, [comments |-> Array(<<>>)]),
   ObjectAssign(PostBase, [comments |-> Array(<<CommentA>>)]),
   ObjectAssign(PostBase, [comments |-> Array(<<CommentA, CommentB>>)])}

InitialPayloads ==
  {[user |-> Null, noUsers |-> 7, vapidPublicKey |-> <<"key">>]}

UserPayloads == {[id |-> <<"u1">>, username |-> <<"alice">>, points |-> 3]}

NewPostInputs ==
  [type : {<<"text">>, <<"image">>, <<"link">>},
   title : {<<"hello">>}, community : {<<"general">>},
   body : {Undefined},
   link : {Undefined, <<>>, <<"https://a.example">>},
   image : {Undefined, <<"pic.png">>}]

DeleteAsInputs == {Undefined, <<>>, <<"normal">>, <<"mods">>, <<"admins">>}

DeleteContentInputs == {Undefined, JSTrue, JSFalse}

PostOps == {"getPost", "newPost", "upvotePost", "downvotePost", "deletePost",
            "updatePost"}

\* The operations that return new Comment(...).
CommentOps == {"comment", "upvoteComment", "downvoteComment", "deleteComment",
               "updateComment"}

\* The comments a server returns for a comment operation: as it was, voted
\* on, edited, and a reply.
CommentPayloads ==
  {CommentA,
   [CommentA EXCEPT !.upvotes = 3],
   [CommentA EXCEPT !.body = <<"edited">>],
   ObjectAssign(CommentB, [parentId |-> <<"c1">>])}

\* A feed page: the post payloads, not wrapped by getPosts.
FeedPayloads == {[posts |-> Array(<<PostBase>>), next |-> Null]}

\* The payloads response.json() can yield for an operation.
Payloads(op) ==
  IF op = "initialize" THEN InitialPayloads
  ELSE IF op = "login" THEN UserPayloads
  ELSE IF op = "getPosts" THEN FeedPayloads
  ELSE IF op \in CommentOps THEN CommentPayloads
  ELSE PostPayloads

(***************************************************************************)
(* State                                                                   *)
(*   baseURL, sid, csrfToken  the fields of each client instance           *)
(*   inflight   the requests awaiting fetch ("fetch") or response.json()   *)
(*              ("json"): [id, client, op, phase, self, method], self and  *)
(*              method naming the wrapper and the wrapper method that      *)
(*              invoked the operation (0 and "": the caller did)           *)
(*   calls      the number of requests issued so far (the newest id)       *)
(*   last       the step just taken: a request handed to fetch, a          *)
(*              response processed, an operation's return or failure       *)
(*   heap       the wrapper objects the caller holds on to, by reference   *)
(*              (the index): [class, obj]                                  *)
(*   rawSid, expSid, expCsrf, lastSidResp                                  *)
(*              what the processed responses carried (history, read only   *)
(*              by the properties)                                         *)
(***************************************************************************)
VARIABLES baseURL, sid, csrfToken, inflight, calls, last, heap,
          rawSid, expSid, expCsrf, lastSidResp

vars == <<baseURL, sid, csrfToken, inflight, calls, last, heap,
          rawSid, expSid, expCsrf, lastSidResp>>

client_vars == <<baseURL, sid, csrfToken>>

hist_vars == <<rawSid, expSid, expCsrf, lastSidResp>>

\* The instance c as request() and the operations read it.
This(c) == [baseURL |-> baseURL[c], sid |-> sid[c], csrfToken |-> csrfToken[c]]

\* A variant with the field shared by all instances (a static field).
SetFieldStatic(field, c, v) == [d \in DOMAIN field |-> v]

\* this.<field> = v on instance c.
SetField(field, c, v) == [field EXCEPT ![c] = v]

\* What a response carries, said apart from the client's code: these feed
\* the history variables and the properties only.
\* The last Set-Cookie entry starting with prefix (undefined: none).
CarriedCookie(cookies, prefix) ==
  LET idx == {i \in 1..Len(cookies) : StartsWith(cookies[i], prefix)}
  IN  IF idx = {} THEN Undefined
      ELSE cookies[CHOOSE i \in idx : \A j \in idx : j <= i]

\* The text of a cookie entry between its prefix and its first ";".
RawValue(cookie, prefix) ==
  LET rest == SubSeq(cookie, Len(prefix) + 1, Len(cookie))
      ends == {i \in 1..Len(rest) : rest[i] = ";"}
  IN  IF ends = {} THEN rest
      ELSE SubSeq(rest, 1, (CHOOSE i \in ends : \A j \in ends : i <= j) - 1)

CarriesSid(response) ==
  CarriedCookie(response.cookies, SidCookiePrefix) # Undefined

CarriesCsrf(response) ==
  \/ CarriedCookie(response.cookies, CsrfCookiePrefix) # Undefined
  \/ response.csrfHeader \notin {Null, <<>>}

\* The state after constructing each client c with cfg[c].
Constructed(cfg) ==
  /\ baseURL   = [c \in Clients |-> constructor(cfg[c]).baseURL]
  /\ sid       = [c \in Clients |-> constructor(cfg[c]).sid]
  /\ csrfToken = [c \in Clients |-> constructor(cfg[c]).csrfToken]
  /\ inflight = {}
  /\ calls = 0
  /\ last = [kind |-> "init"]
  /\ heap = <<>>
  /\ rawSid = [c \in Clients |-> Null]
  /\ expSid = [c \in Clients |-> Null]
  /\ expCsrf = [c \in Clients |-> Null]
  /\ lastSidResp = [c \in Clients |-> 0]

Init == Constructed(SessionConfig)

(***************************************************************************)
(* request(): up to the fetch                                              *)
(***************************************************************************)
\* A variant that sends every request twice.
IssueFromTwice(c, op, args, call, self, method) ==
  LET request == BuildRequest(This(c), call.method, call.url, call.options)
  IN  /\ calls' = calls + 2
      /\ inflight' = inflight \cup {[id |-> calls + n, client |-> c,
                                     op |-> op, phase |-> "fetch",
                                     headers |-> request.headers,
                                     self |-> self, method |-> method] :
                                    n \in {1, 2}}
      /\ last' = [kind |-> "request", id |-> calls + 2, client |-> c,
                  op |-> op, args |-> args, self |-> self, method |-> method,
                  request |-> request]
      /\ UNCHANGED <<client_vars, hist_vars, heap>>

\* A variant where a client keeps one Headers object for all its requests:
\* the headers of a new request become those of its unfinished ones.
IssueFromSharedHeaders(c, op, args, call, self, method) ==
  LET request == BuildRequest(This(c), call.method, call.url, call.options)
  IN  /\ calls' = calls + 1
      /\ inflight' =
           {IF r.client = c THEN [r EXCEPT !.headers = request.headers] ELSE r :
              r \in inflight}
             \cup {[id |-> calls + 1, client |-> c, op |-> op,
                    phase |-> "fetch", headers |-> request.headers,
                    self |-> self, method |-> method]}
      /\ last' = [kind |-> "request", id |-> calls + 1, client |-> c,
                  op |-> op, args |-> args, self |-> self, method |-> method,
                  request |-> request]
      /\ UNCHANGED <<client_vars, hist_vars, heap>>

\* The call of request() up to its fetch: the headers are composed from the
\* session held now and go out with the request, which is then in flight.
\* self and method name the wrapper method that made the call (0 and ""
\* for a call on the client).
IssueFrom(c, op, args, call, self, method) ==
  LET request == BuildRequest(This(c), call.method, call.url, call.options)
  IN  /\ calls' = calls + 1
      /\ inflight' = inflight \cup {[id |-> calls + 1, client |-> c,
                                     op |-> op, phase |-> "fetch",
                                     headers |-> request.headers,
                                     self |-> self, method |-> method]}
      /\ last' = [kind |-> "request", id |-> calls + 1, client |-> c,
                  op |-> op, args |-> args, self |-> self, method |-> method,
                  request |-> request]
      /\ UNCHANGED <<client_vars, hist_vars, heap>>

\* The same, invoked by the caller on the client.
Issue(c, op, args, call) == IssueFrom(c, op, args, call, 0, "")

initialize(c) ==
  /\ calls < MaxCalls
  /\ Issue(c, "initialize", <<>>, initializeCall)

login(c, username, password) ==
  /\ calls < MaxCalls
  /\ Issue(c, "login", <<username, password>>, loginCall(username, password))

getPost(c, id) ==
  /\ calls < MaxCalls
  /\ Issue(c, "getPost", [id |-> id], getPostCall(id))

newPost(c, data) ==
  /\ calls < MaxCalls
  /\ IF newPostError(data) # ""
     THEN /\ last' = [kind |-> "fail", id |-> 0, client |-> c, op |-> "newPost",
                      args |-> data, self |-> 0, method |-> "",
                      error |-> newPostError(data)]
          /\ UNCHANGED <<client_vars, hist_vars, inflight, calls, heap>>
     ELSE Issue(c, "newPost", data, newPostCall(data))

upvotePost(c, id) ==
  /\ calls < MaxCalls
  /\ Issue(c, "upvotePost", [id |-> id], upvotePostCall(id))

downvotePost(c, id) ==
  /\ calls < MaxCalls
  /\ Issue(c, "downvotePost", [id |-> id], downvotePostCall(id))

deletePost(c, id, deleteAs, deleteContent) ==
  /\ calls < MaxCalls
  /\ Issue(c, "deletePost",
           [id |-> id, deleteAs |-> deleteAs, deleteContent |-> deleteContent],
           deletePostCall(id, deleteAs, deleteContent))

updatePost(c, id, title, body) ==
  /\ calls < MaxCalls
  /\ Issue(c, "updatePost", [id |-> id, title |-> title, body |-> body],
           updatePostCall(id, title, body))

comment(c, id, body, parentId) ==
  /\ calls < MaxCalls
  /\ Issue(c, "comment", [id |-> id, body |-> body, parentId |-> parentId],
           commentCall(id, body, parentId))

upvoteComment(c, id) ==
  /\ calls < MaxCalls
  /\ Issue(c, "upvoteComment", [id |-> id], upvoteCommentCall(id))

downvoteComment(c, id) ==
  /\ calls < MaxCalls
  /\ Issue(c, "downvoteComment", [id |-> id], downvoteCommentCall(id))

deleteComment(c, postId, id, deleteAs) ==
  /\ calls < MaxCalls
  /\ Issue(c, "deleteComment",
           [postId |-> postId, id |-> id, deleteAs |-> deleteAs],
           deleteCommentCall(postId, id, deleteAs))

updateComment(c, postId, body, id) ==
  /\ calls < MaxCalls
  /\ Issue(c, "updateComment", [postId |-> postId, body |-> body, id |-> id],
           updateCommentCall(postId, body, id))

getPosts(c, options) ==
  /\ calls < MaxCalls
  /\ Issue(c, "getPosts", options, getPostsCall(options))

\* client.loginWithSid(sid): the class has no such member, so the call
\* expression throws a TypeError and nothing else happens.
loginWithSid(c, sidArg) ==
  /\ calls < MaxCalls
  /\ last' = [kind |-> "fail", id |-> 0, client |-> c, op |-> "loginWithSid",
              args |-> [sid |-> sidArg], self |-> 0, method |-> "",
              error |-> "TypeError"]
  /\ UNCHANGED <<client_vars, hist_vars, inflight, calls, heap>>

(***************************************************************************)
(* The wrapper methods: each invokes a client operation with fields of     *)
(* this, the wrapper heap[self]                                            *)
(***************************************************************************)
\* a ?? b
NullishCoalesce(a, b) == IF a \in {Null, Undefined} THEN b ELSE a

\* a || b
LogicalOr(a, b) == IF ToBoolean(a) THEN a ELSE b

IsPost(self) == self \in DOMAIN heap /\ heap[self].class = "Post"

IsComment(self) == self \in DOMAIN heap /\ heap[self].class = "Comment"

Post_upvote(self) ==
  /\ IsPost(self) /\ calls < MaxCalls
  /\ LET this == heap[self].obj
     IN  IssueFrom(this.client, "upvotePost", [id |-> this.id],
                   upvotePostCall(this.id), self, "Post.upvote")

Post_downvote(self) ==
  /\ IsPost(self) /\ calls < MaxCalls
  /\ LET this == heap[self].obj
     IN  IssueFrom(this.client, "downvotePost", [id |-> this.id],
                   downvotePostCall(this.id), self, "Post.downvote")

Post_delete(self, deleteAs, deleteContent) ==
  /\ IsPost(self) /\ calls < MaxCalls
  /\ LET this == heap[self].obj
     IN  IssueFrom(this.client, "deletePost",
                   [id |-> this.publicId, deleteAs |-> deleteAs,
                    deleteContent |-> deleteContent],
                   deletePostCall(this.publicId, deleteAs, deleteContent),
                   self, "Post.delete")

\* A variant that sends the arguments as given, with no fallback.
Post_editAsGiven(self, title, body) ==
  /\ IsPost(self) /\ calls < MaxCalls
  /\ LET this == heap[self].obj
     IN  IssueFrom(this.client, "updatePost",
                   [id |-> this.id, title |-> title, body |-> body,
                    given |-> [title |-> title, body |-> body]],
                   updatePostCall(this.id, title, body), self, "Post.edit")

Post_edit(self, title, body) ==
  /\ IsPost(self) /\ calls < MaxCalls
  /\ LET this == heap[self].obj
         sentTitle == NullishCoalesce(title, this.title)
         sentBody == NullishCoalesce(body, LogicalOr(this.body, Undefined))
     IN  IssueFrom(this.client, "updatePost",
                   [id |-> this.id, title |-> sentTitle, body |-> sentBody,
                    given |-> [title |-> title, body |-> body]],
                   updatePostCall(this.id, sentTitle, sentBody),
                   self, "Post.edit")

Post_comment(self, body) ==
  /\ IsPost(self) /\ calls < MaxCalls
  /\ LET this == heap[self].obj
     IN  IssueFrom(this.client, "comment",
                   [id |-> this.publicId, body |-> body,
                    parentId |-> Undefined],
                   commentCall(this.publicId, body, Undefined),
                   self, "Post.comment")

Comment_upvote(self) ==
  /\ IsComment(self) /\ calls < MaxCalls
  /\ LET this == heap[self].obj
     IN  IssueFrom(this.client, "upvoteComment", [id |-> this.id],
                   upvoteCommentCall(this.id), self, "Comment.upvote")

Comment_downvote(self) ==
  /\ IsComment(self) /\ calls < MaxCalls
  /\ LET this == heap[self].obj
     IN  IssueFrom(this.client, "downvoteComment", [id |-> this.id],
                   downvoteCommentCall(this.id), self, "Comment.downvote")

Comment_delete(self, deleteAs) ==
  /\ IsComment(self) /\ calls < MaxCalls
  /\ LET this == heap[self].obj
     IN  IssueFrom(this.client, "deleteComment",
                   [postId |-> this.postId, id |-> this.id,
                    deleteAs |-> deleteAs],
                   deleteCommentCall(this.postId, this.id, deleteAs),
                   self, "Comment.delete")

Comment_edit(self, body) ==
  /\ IsComment(self) /\ calls < MaxCalls
  /\ LET this == heap[self].obj
     IN  IssueFrom(this.client, "updateComment",
                   [postId |-> this.postPublicId, body |-> body,
                    id |-> this.id],
                   updateCommentCall(this.postPublicId, body, this.id),
                   self, "Comment.edit")

Comment_comment(self, body) ==
  /\ IsComment(self) /\ calls < MaxCalls
  /\ LET this == heap[self].obj
     IN  IssueFrom(this.client, "comment",
                   [id |-> this.postPublicId, body |-> body,
                    parentId |-> this.id],
                   commentCall(this.postPublicId, body, this.id),
                   self, "Comment.comment")

\* A variant that reads the credentials of successful responses only.
FetchResolveOkOnly(r, response) ==
  LET c == r.client
      before == [sid |-> sid[c], csrfToken |-> csrfToken[c]]
      after == IF ResponseOk(response)
               THEN handleResponse(before, response) ELSE before
      seen == [id |-> r.id, client |-> c, op |-> r.op,
               cookies |-> response.cookies,
               csrfHeader |-> response.csrfHeader,
               carried |-> [sid |-> CarriesSid(response),
                            csrf |-> CarriesCsrf(response),
                            any |-> response.cookies # <<>>],
               self |-> r.self, method |-> r.method,
               status |-> response.status, before |-> before,
               sidFrom |-> lastSidResp[c]]
  IN  /\ r \in inflight /\ r.phase = "fetch"
      /\ sid' = SetField(sid, c, after.sid)
      /\ csrfToken' = SetField(csrfToken, c, after.csrfToken)
      /\ UNCHANGED <<baseURL, calls, heap>>
      /\ IF ResponseOk(response)
         THEN /\ inflight' = (inflight \ {r}) \cup {[r EXCEPT !.phase = "json"]}
              /\ last' = [kind |-> "response"] @@ seen
         ELSE /\ inflight' = inflight \ {r}
              /\ last' = [kind |-> "fail", error |-> "HTTP error!",
                          logged |-> 1] @@ seen
      /\ rawSid' = IF CarriesSid(response)
                   THEN [rawSid EXCEPT ![c] =
                           RawValue(CarriedCookie(response.cookies,
                                                  SidCookiePrefix),
                                    SidCookiePrefix)]
                   ELSE rawSid
      /\ expSid' = IF CarriesSid(response)
                   THEN [expSid EXCEPT ![c] =
                           CookieValue(CarriedCookie(response.cookies,
                                                     SidCookiePrefix))]
                   ELSE expSid
      /\ lastSidResp' = IF CarriesSid(response)
                        THEN [lastSidResp EXCEPT ![c] = r.id]
                        ELSE lastSidResp
      /\ expCsrf' = IF response.csrfHeader \notin {Null, <<>>}
                    THEN [expCsrf EXCEPT ![c] = response.csrfHeader]
                    ELSE IF CarriesCsrf(response)
                    THEN [expCsrf EXCEPT ![c] =
                            CookieValue(CarriedCookie(response.cookies,
                                                      CsrfCookiePrefix))]
                    ELSE expCsrf

(***************************************************************************)
(* request(): from the fetch on, and the rest of the operation             *)
(***************************************************************************)
\* fetch resolves with a response: handleResponse, then the status check.
FetchResolve(r, response) ==
  LET c == r.client
      before == [sid |-> sid[c], csrfToken |-> csrfToken[c]]
      after == handleResponse(before, response)
      seen == [id |-> r.id, client |-> c, op |-> r.op,
               cookies |-> response.cookies,
               csrfHeader |-> response.csrfHeader,
               carried |-> [sid |-> CarriesSid(response),
                            csrf |-> CarriesCsrf(response),
                            any |-> response.cookies # <<>>],
               self |-> r.self, method |-> r.method,
               status |-> response.status, before |-> before,
               sidFrom |-> lastSidResp[c]]
  IN  /\ r \in inflight /\ r.phase = "fetch"
      /\ sid' = SetField(sid, c, after.sid)
      /\ csrfToken' = SetField(csrfToken, c, after.csrfToken)
      /\ UNCHANGED <<baseURL, calls, heap>>
      /\ IF ResponseOk(response)
         THEN /\ inflight' = (inflight \ {r}) \cup {[r EXCEPT !.phase = "json"]}
              /\ last' = [kind |-> "response"] @@ seen
         ELSE /\ inflight' = inflight \ {r}
              /\ last' = [kind |-> "fail", error |-> "HTTP error!",
                          logged |-> 1] @@ seen
      /\ rawSid' = IF CarriesSid(response)
                   THEN [rawSid EXCEPT ![c] =
                           RawValue(CarriedCookie(response.cookies,
                                                  SidCookiePrefix),
                                    SidCookiePrefix)]
                   ELSE rawSid
      /\ expSid' = IF CarriesSid(response)
                   THEN [expSid EXCEPT ![c] =
                           CookieValue(CarriedCookie(response.cookies,
                                                     SidCookiePrefix))]
                   ELSE expSid
      /\ lastSidResp' = IF CarriesSid(response)
                        THEN [lastSidResp EXCEPT ![c] = r.id]
                        ELSE lastSidResp
      /\ expCsrf' = IF response.csrfHeader \notin {Null, <<>>}
                    THEN [expCsrf EXCEPT ![c] = response.csrfHeader]
                    ELSE IF CarriesCsrf(response)
                    THEN [expCsrf EXCEPT ![c] =
                            CookieValue(CarriedCookie(response.cookies,
                                                      CsrfCookiePrefix))]
                    ELSE expCsrf

\* A variant that issues the fetch again when it rejects.
FetchRejectRetry(r) ==
  /\ r \in inflight /\ r.phase = "fetch"
  /\ calls' = calls + 1
  /\ inflight' = (inflight \ {r}) \cup {[r EXCEPT !.id = calls + 1]}
  /\ last' = [kind |-> "fail", id |-> r.id, client |-> r.client, op |-> r.op,
              self |-> r.self, method |-> r.method,
              error |-> "network", logged |-> 1]
  /\ UNCHANGED <<client_vars, hist_vars, heap>>

\* fetch rejects: a network failure, no response.
FetchReject(r) ==
  /\ r \in inflight /\ r.phase = "fetch"
  /\ inflight' = inflight \ {r}
  /\ last' = [kind |-> "fail", id |-> r.id, client |-> r.client, op |-> r.op,
              self |-> r.self, method |-> r.method,
              before |-> [sid |-> sid[r.client],
                          csrfToken |-> csrfToken[r.client]],
              error |-> "network", logged |-> 1]
  /\ UNCHANGED <<client_vars, hist_vars, calls, heap>>

\* A variant where a refreshing method has blanked the body it is about to
\* refresh, and a failure leaves it blank.
JsonRejectBlanked(r) ==
  /\ r \in inflight /\ r.phase = "json"
  /\ inflight' = inflight \ {r}
  /\ last' = [kind |-> "fail", id |-> r.id, client |-> r.client, op |-> r.op,
              self |-> r.self, method |-> r.method,
              error |-> "parse", logged |-> 1]
  /\ heap' = IF r.method \in {"Comment.upvote", "Comment.downvote",
                              "Comment.delete", "Comment.edit"}
             THEN [heap EXCEPT ![r.self].obj.body = Undefined]
             ELSE heap
  /\ UNCHANGED <<client_vars, hist_vars, calls>>

\* response.json() rejects: the body is not JSON.
JsonReject(r) ==
  /\ r \in inflight /\ r.phase = "json"
  /\ inflight' = inflight \ {r}
  /\ last' = [kind |-> "fail", id |-> r.id, client |-> r.client, op |-> r.op,
              self |-> r.self, method |-> r.method,
              error |-> "parse", logged |-> 1]
  /\ UNCHANGED <<client_vars, hist_vars, calls, heap>>

\* A variant where login checks the credentials as initialize does.
FinishLoginChecked(op, this, c, data) ==
  IF op \in {"initialize", "login"}
  THEN IF initializeError(this) # ""
       THEN [kind |-> "fail", error |-> initializeError(this)]
       ELSE [kind |-> "return", data |-> data, value |-> data]
  ELSE IF op = "getPosts"
  THEN [kind |-> "return", data |-> data, value |-> data]
  ELSE IF op \in CommentOps
  THEN [kind |-> "return", data |-> data, value |-> Comment(data, c)]
  ELSE [kind |-> "return", data |-> data, value |-> Post(data, c)]

\* What the operation does with the data request() returned.
Finish(op, this, c, data) ==
  IF op = "initialize"
  THEN IF initializeError(this) # ""
       THEN [kind |-> "fail", error |-> initializeError(this)]
       ELSE [kind |-> "return", data |-> data, value |-> data]
  ELSE IF op \in {"login", "getPosts"}
  THEN [kind |-> "return", data |-> data, value |-> data]
  ELSE IF op \in CommentOps
  THEN [kind |-> "return", data |-> data, value |-> Comment(data, c)]
  ELSE [kind |-> "return", data |-> data, value |-> Post(data, c)]

\* The Comment methods that end with Object.assign(this, comment);
\* return this.
RefreshingMethods ==
  {"Comment.upvote", "Comment.downvote", "Comment.delete", "Comment.edit"}

\* A variant where the refreshing methods return the client's new wrapper
\* and leave this as it was.
AfterOperationNew(r, done, keep) ==
  IF keep /\ done.kind = "return" /\ r.op \in PostOps \cup CommentOps
  THEN [heap  |-> Append(heap,
                        [class |-> IF r.op \in PostOps THEN "Post"
                                                       ELSE "Comment",
                         obj   |-> done.value]),
        event |-> done @@ [ref |-> Len(heap) + 1]]
  ELSE [heap |-> heap, event |-> done @@ [ref |-> 0]]

\* A variant where the Post methods refresh this in place as well.
AfterOperationAllRefresh(r, done, keep) ==
  IF done.kind = "return" /\ r.self # 0
  THEN LET refreshed == ObjectAssign(heap[r.self].obj, done.value)
       IN  [heap  |-> [heap EXCEPT ![r.self].obj = refreshed],
            event |-> [done EXCEPT !.value = refreshed] @@ [ref |-> r.self]]
  ELSE AfterOperationNew(r, done, keep)

\* What follows the client operation's result done: the wrapper method
\* that invoked it (r.method) refreshes this in place and returns it, or
\* hands the operation's result on; the caller holds on to a new wrapper
\* (keep) or drops it.  ref is the reference of the wrapper returned, 0
\* for one the caller drops.
AfterOperation(r, done, keep) ==
  IF done.kind = "return" /\ r.method \in RefreshingMethods
  THEN LET refreshed == ObjectAssign(heap[r.self].obj, done.value)
       IN  [heap  |-> [heap EXCEPT ![r.self].obj = refreshed],
            event |-> [done EXCEPT !.value = refreshed] @@ [ref |-> r.self]]
  ELSE IF keep /\ done.kind = "return" /\ r.op \in PostOps \cup CommentOps
  THEN [heap  |-> Append(heap,
                        [class |-> IF r.op \in PostOps THEN "Post"
                                                       ELSE "Comment",
                         obj   |-> done.value]),
        event |-> done @@ [ref |-> Len(heap) + 1]]
  ELSE [heap |-> heap, event |-> done @@ [ref |-> 0]]

\* response.json() resolves with data: request() returns it, the operation
\* finishes, and so does the wrapper method that invoked it.
Resolve(r, data, keep) ==
  LET done == Finish(r.op, This(r.client), r.client, data)
      after == AfterOperation(r, done, keep)
  IN  /\ r \in inflight /\ r.phase = "json"
      /\ inflight' = inflight \ {r}
      /\ heap' = after.heap
      /\ last' = after.event
                   @@ [id |-> r.id, client |-> r.client, op |-> r.op,
                       self |-> r.self, method |-> r.method]
      /\ UNCHANGED <<client_vars, hist_vars, calls>>

\* The caller drops what the call returns.
JsonResolve(r, data) == Resolve(r, data, FALSE)

\* The most wrappers the caller holds on to.
MaxHeld == 1

\* The caller holds on to the new wrapper the call returns.
JsonResolveKeep(r, data) ==
  /\ Len(heap) < MaxHeld
  /\ r.op \in PostOps \cup CommentOps
  /\ r.method \notin RefreshingMethods
  /\ Resolve(r, data, TRUE)

\* One client and the two operations that differ in how they use the
\* session (a GET that checks the credentials, a POST); any number of them
\* overlap.
Next ==
  \/ initialize(1)
  \/ login(1, <<"alice">>, <<"secret">>)
  \/ \E r \in inflight, response \in Responses : FetchResolve(r, response)
  \/ \E r \in inflight : FetchReject(r)
  \/ \E r \in inflight : \E data \in Payloads(r.op) : JsonResolve(r, data)
  \/ \E r \in inflight : JsonReject(r)

Spec == Init /\ [][Next]_vars

\* Two clients, the first configured in each way; every operation with each
\* of its arguments, one operation at a time.
InitWire ==
  \E cfg \in Configs :
    Constructed([c \in Clients |-> IF c = 1 THEN cfg ELSE SessionConfig[c]])

Idle == inflight = {}

NextWire ==
  \/ \E c \in Clients : Idle /\ initialize(c)
  \/ \E c \in Clients : Idle /\ login(c, <<"alice">>, <<"secret">>)
  \/ \E c \in Clients, id \in PostIds : Idle /\ getPost(c, id)
  \/ \E c \in Clients, data \in NewPostInputs : Idle /\ newPost(c, data)
  \/ \E c \in Clients, id \in PostIds : Idle /\ upvotePost(c, id)
  \/ \E c \in Clients, id \in PostIds : Idle /\ downvotePost(c, id)
  \/ \E c \in Clients, deleteAs \in DeleteAsInputs,
        deleteContent \in DeleteContentInputs :
       Idle /\ deletePost(c, <<"abc123">>, deleteAs, deleteContent)
  \/ \E r \in inflight, response \in WireResponses : FetchResolve(r, response)
  \/ \E r \in inflight : FetchReject(r)
  \/ \E r \in inflight : \E data \in Payloads(r.op) : JsonResolve(r, data)
  \/ \E r \in inflight : JsonReject(r)

SpecWire == InitWire /\ [][NextWire]_vars

\* The responses of the runs on the entities: a success and a failure.
EntityResponses ==
  [status : {200, 404}, cookies : {<<CookieCsrfT, CookieSidA>>},
   csrfHeader : {Null}]

\* getPosts: no options, each default overridden, limit 0, every option.
GetPostsInputs ==
  {<<>>,
   [feed |-> <<"all">>],
   [sort |-> <<"hot">>],
   [limit |-> 25],
   [limit |-> 0],
   [feed |-> <<"community">>, sort |-> <<"day">>, filter |-> <<"locked">>,
    communityId |-> <<"g1">>, next |-> <<"n1">>, limit |-> 5]}

EditTitleInputs == {Undefined, <<"retitled">>}

EditBodyInputs == {Undefined, <<>>, <<"rewritten">>}

\* One client; the entity operations and the wrapper methods, one at a
\* time, on the wrappers the caller holds on to.
NextEntities ==
  \/ Idle /\ getPost(1, <<"abc123">>)
  \/ Idle /\ updatePost(1, <<"1">>, <<"retitled">>, Undefined)
  \/ \E parentId \in {Undefined, <<"c1">>} :
       Idle /\ comment(1, <<"abc123">>, <<"hi">>, parentId)
  \/ Idle /\ upvoteComment(1, <<"c1">>)
  \/ Idle /\ downvoteComment(1, <<"c1">>)
  \/ \E deleteAs \in {Undefined, <<"mods">>} :
       Idle /\ deleteComment(1, <<"1">>, <<"c1">>, deleteAs)
  \/ Idle /\ updateComment(1, <<"abc123">>, <<"edited">>, <<"c1">>)
  \/ \E options \in GetPostsInputs : Idle /\ getPosts(1, options)
  \/ Idle /\ loginWithSid(1, <<"X">>)
  \/ \E self \in DOMAIN heap : Idle /\ Post_upvote(self)
  \/ \E self \in DOMAIN heap : Idle /\ Post_downvote(self)
  \/ \E self \in DOMAIN heap, deleteAs \in {Undefined, <<"mods">>} :
       Idle /\ Post_delete(self, deleteAs, Undefined)
  \/ \E self \in DOMAIN heap, title \in EditTitleInputs,
        body \in EditBodyInputs :
       Idle /\ Post_edit(self, title, body)
  \/ \E self \in DOMAIN heap : Idle /\ Post_comment(self, <<"hi">>)
  \/ \E self \in DOMAIN heap : Idle /\ Comment_upvote(self)
  \/ \E self \in DOMAIN heap : Idle /\ Comment_downvote(self)
  \/ \E self \in DOMAIN heap, deleteAs \in {Undefined, <<"mods">>} :
       Idle /\ Comment_delete(self, deleteAs)
  \/ \E self \in DOMAIN heap : Idle /\ Comment_edit(self, <<"edited">>)
  \/ \E self \in DOMAIN heap : Idle /\ Comment_comment(self, <<"hi">>)
  \/ \E r \in inflight, response \in EntityResponses :
       FetchResolve(r, response)
  \/ \E r \in inflight : FetchReject(r)
  \/ \E r \in inflight : \E data \in Payloads(r.op) : JsonResolve(r, data)
  \/ \E r \in inflight : \E data \in Payloads(r.op) : JsonResolveKeep(r, data)
  \/ \E r \in inflight : JsonReject(r)

SpecEntities == Init /\ [][NextEntities]_vars

(***************************************************************************)
(* Properties                                                              *)
(***************************************************************************)
\* s contains p as a substring.
Contains(s, p) ==
  \E i \in 0..(Len(s) - Len(p)) : SubSeq(s, i + 1, i + Len(p)) = p

\* The value of query parameter key (undefined: not sent).
Param(search, key) ==
  LET idx == {i \in DOMAIN search : search[i][1] = key}
  IN  IF idx = {} THEN Undefined ELSE search[CHOOSE i \in idx : TRUE][2]

\* The step just taken invoked an operation (last holds its arguments).
Invoked(e) == e.kind = "request" \/ (e.kind = "fail" /\ e.id = 0)

\* The step just taken processed a response (last holds the session before).
Processed(e) ==
  e.kind = "response" \/ (e.kind = "fail" /\ e.error = "HTTP error!")

\* The step just taken ended an operation whose request failed.
RequestFailed(e) ==
  e.kind = "fail" /\ e.error \in {"network", "HTTP error!", "parse"}

\* C1: once a response carrying Set-Cookie: SID=X has been processed, every
\* request issued afterwards carries a Cookie header containing SID=X, until
\* a later response carries another SID cookie.  rawSid holds the X of the
\* last SID cookie processed.
C1_CookieCarriesSid ==
  (last.kind = "request" /\ rawSid[last.client] # Null)
    => Contains(last.request.headers.Cookie,
                SidCookiePrefix \o rawSid[last.client])

\* C2 as stated: initialize() fails with an initialization error if and only
\* if the session id or the CSRF token is unset once the call has completed,
\* and in every other case returns the bootstrap payload.
C2_InitializeAsStated ==
  (last.kind \in {"fail", "return"} /\ last.op = "initialize")
    => LET unset == sid[last.client] = Null \/ csrfToken[last.client] = Null
       IN  /\ (last.kind = "fail" /\ last.error = "Initialization failed")
                <=> unset
           /\ ~unset => last.kind = "return"

\* C2, amended: when its request fails, initialize() fails with the
\* request's error; when the request succeeds, it fails with an
\* initialization error if and only if the session id or the CSRF token is
\* then null or the empty string, and otherwise returns the payload.
C2_Initialize ==
  (last.kind \in {"fail", "return"} /\ last.op = "initialize"
     /\ ~RequestFailed(last))
    => LET missing == \/ sid[last.client] \in {Null, <<>>}
                      \/ csrfToken[last.client] \in {Null, <<>>}
       IN  IF missing
           THEN last.kind = "fail" /\ last.error = "Initialization failed"
           ELSE /\ last.kind = "return"
                /\ last.value = last.data
                /\ last.value \in InitialPayloads

\* initialize() has failed with an initialization error on a session id
\* that a response set, to the empty string.
C2_Witness ==
  /\ last.kind = "fail" /\ last.op = "initialize"
  /\ last.error = "Initialization failed"
  /\ sid[last.client] = <<>>
  /\ csrfToken[last.client] \notin {Null, <<>>}

\* The arguments of a newPost that names a link post without a link, or an
\* image post without an image.
Incomplete(data) ==
  \/ data.type = <<"link">> /\ data.link = Undefined
  \/ data.type = <<"image">> /\ data.image = Undefined

\* C3: newPost with type "link" and no link, or type "image" and no image,
\* fails with a validation error before any network call: no request is
\* issued and the session is unchanged.
C3_NewPostValidation ==
  [][(Invoked(last') /\ last'.op = "newPost" /\ Incomplete(last'.args))
       => /\ last'.kind = "fail"
          /\ last'.error = IF last'.args.type = <<"link">>
                           THEN "Link is required for link posts."
                           ELSE "Image is required for image posts."
          /\ UNCHANGED <<inflight, calls, baseURL, sid, csrfToken>>]_vars

\* An image post without an image has failed on a client that holds a
\* session.
C3_Witness ==
  /\ Invoked(last) /\ last.op = "newPost" /\ last.kind = "fail"
  /\ last.args.type = <<"image">> /\ last.args.image = Undefined
  /\ sid[last.client] # Null
  /\ calls = 1 /\ inflight = {}

\* C4: with several requests in flight on one client, the held sessionId and
\* csrfToken are those of the last response processed that carried each of
\* them, whatever the order the requests were started in.  expSid and
\* expCsrf hold what the last processed carrier of each credential carried.
C4_LastResponseWins ==
  \A c \in Clients : sid[c] = expSid[c] /\ csrfToken[c] = expCsrf[c]

\* The response to the request started first was processed after the
\* response to the one started second, both carried a session id, no
\* response is outstanding, and the held session id is the first request's.
C4_Witness ==
  /\ Processed(last) /\ last.id = 1 /\ last.sidFrom = 2
  /\ lastSidResp[last.client] = 1
  /\ sid[last.client] # last.before.sid
  /\ \A r \in inflight : r.phase # "fetch"

\* C5: deletePost(id) sends deleteAs=normal, deletePost(id, "mods") sends
\* deleteAs=mods, and deleteContent is sent as false unless the caller
\* passes true.
C5_DeletePostParams ==
  (last.kind = "request" /\ last.op = "deletePost")
    => LET q == last.request.search
       IN  /\ last.request.method = "DELETE"
           /\ last.args.deleteAs = Undefined
                => Param(q, "deleteAs") = <<"normal">>
           /\ last.args.deleteAs = <<"mods">>
                => Param(q, "deleteAs") = <<"mods">>
           /\ Param(q, "deleteContent") =
                IF last.args.deleteContent = JSTrue THEN <<"true">>
                                                    ELSE <<"false">>
           /\ Cardinality(DOMAIN q) = 2

\* deletePost(id, "mods") has sent its request.
C5_Witness ==
  /\ last.kind = "request" /\ last.op = "deletePost"
  /\ last.args.deleteAs = <<"mods">> /\ last.args.deleteContent = Undefined
  /\ Param(last.request.search, "deleteAs") = <<"mods">>

\* C6: upvotePost(id) and downvotePost(id) each send one POST to _postVote
\* with the target id and up: true / up: false, and each returns a Post
\* wrapper holding the post the server returned, its vote counts included.
C6_VotePost ==
  [][/\ (last'.kind = "request" /\ last'.op \in {"upvotePost", "downvotePost"})
          => /\ calls' = calls + 1
             /\ Cardinality(inflight') = Cardinality(inflight) + 1
             /\ last'.request.method = "POST"
             /\ last'.request.url = baseURL[last'.client] \o <<"_postVote">>
             /\ last'.request.search = <<>>
             /\ last'.request.body =
                  [postId |-> last'.args.id,
                   up |-> IF last'.op = "upvotePost" THEN JSTrue ELSE JSFalse]
     /\ (last'.kind = "return" /\ last'.op \in {"upvotePost", "downvotePost"})
          => /\ calls' = calls
             /\ last'.value.client = last'.client
             /\ \A f \in (DOMAIN last'.data) \ {"comments"} :
                  last'.value[f] = last'.data[f]]_vars

\* downvotePost has returned a wrapper with the server's vote counts.
C6_Witness ==
  /\ last.kind = "return" /\ last.op = "downvotePost"
  /\ last.value.upvotes = 5 /\ last.value.downvotes = 3

\* C7 as stated: every field read back from a Post wrapper, the nested
\* comments included, is identical to the payload's.
C7_RoundTripAsStated ==
  (last.kind = "return" /\ last.op \in PostOps)
    => \A f \in DOMAIN last.data : last.value[f] = last.data[f]

\* C7, amended: every field but comments reads back identical to the
\* payload's; comments, when the payload holds an array, reads back as one
\* Comment wrapper per payload comment, in order, each holding that
\* comment's fields unchanged and the client; a null comments stays null.
C7_RoundTrip ==
  (last.kind = "return" /\ last.op \in PostOps)
    => LET data == last.data
           post == last.value
       IN  /\ post.client = last.client
           /\ \A f \in (DOMAIN data) \ {"comments"} : post[f] = data[f]
           /\ "comments" \in DOMAIN data
                => IF data.comments = Null
                   THEN post.comments = Null
                   ELSE /\ DOMAIN post.comments = DOMAIN data.comments
                        /\ \A i \in DOMAIN data.comments :
                             /\ "client" \in DOMAIN post.comments[i]
                             /\ post.comments[i].client = last.client
                             /\ \A g \in DOMAIN data.comments[i] :
                                  post.comments[i][g] = data.comments[i][g]

\* A Post wrapper has been built from a payload with two comments.
C7_Witness ==
  /\ last.kind = "return" /\ last.op = "getPost"
  /\ "comments" \in DOMAIN last.data
  /\ last.data.comments # Null
  /\ Cardinality(DOMAIN last.data.comments) = 2

\* C8: on a client constructed with base URL https://example.org,
\* getPost("abc123") issues GET https://example.org/api/posts/abc123, and the
\* wrapper returned for a payload with publicId "abc123" has that publicId.
C8_GetPostScenario ==
  /\ (last.kind = "request" /\ last.op = "getPost"
        /\ baseURL[last.client] = constructor([baseURL |-> ExampleOrg]).baseURL
        /\ last.args.id = <<"abc123">>)
       => /\ last.request.method = "GET"
          /\ last.request.url =
               ExampleOrg \o <<"/", "api", "/", "posts", "/", "abc123">>
  /\ (last.kind = "return" /\ last.op = "getPost"
        /\ last.data.publicId = <<"abc123">>)
       => last.value.publicId = <<"abc123">>

C10_ClientsIndependent ==
  [][\A c \in Clients :
       /\ last'.client # c
            => /\ baseURL'[c] = baseURL[c]
               /\ sid'[c] = sid[c]
               /\ csrfToken'[c] = csrfToken[c]
       /\ (last'.kind = "request" /\ last'.client = c)
            => /\ last'.request.headers.Cookie =
                    SidCookiePrefix \o TemplateStr(sid[c]) \o <<";", " ">>
                      \o CsrfCookiePrefix \o TemplateStr(csrfToken[c])
               /\ last'.request.headers.XCsrfToken
                    \in {Undefined, csrfToken[c]}]_vars

\* The second client issues a request with no credentials while the first
\* holds a session, each with its own base URL.
C10_Witness ==
  /\ last.kind = "request" /\ last.client = 2
  /\ sid[1] # Null /\ csrfToken[1] # Null
  /\ sid[2] = Null /\ csrfToken[2] = Null
  /\ baseURL[1] # baseURL[2]
  /\ Contains(last.request.headers.Cookie,
              SidCookiePrefix \o <<"n", "u", "l", "l">>)

\* C11: a response whose status is outside 200..299 makes the operation fail
\* with an HTTP error naming that status and yield no value, its request
\* being over; a response whose status is inside has its body parsed, and
\* what request() then returns is the parsed body, for such a response only.
C11_StatusDecides ==
  [][/\ Processed(last')
          => IF last'.status >= 200 /\ last'.status <= 299
             THEN /\ last'.kind = "response"
                  /\ \E r \in inflight' : r.id = last'.id /\ r.phase = "json"
             ELSE /\ last'.kind = "fail" /\ last'.error = "HTTP error!"
                  /\ {"value", "data"} \cap DOMAIN last' = {}
                  /\ \A r \in inflight' : r.id # last'.id
     /\ \A r \in inflight' :
          (r.phase = "json" /\ r \notin inflight)
            => /\ last'.kind = "response" /\ last'.id = r.id
               /\ last'.status >= 200 /\ last'.status <= 299
     /\ (last'.kind = "return" /\ last'.id # 0)
          => /\ \E r \in inflight : r.id = last'.id /\ r.phase = "json"
             /\ last'.data \in Payloads(last'.op)]_vars

\* A 404 has ended one operation with an HTTP error while another
\* operation's 200 awaits its body.
C11_Witness ==
  /\ last.kind = "fail" /\ last.error = "HTTP error!" /\ last.status = 404
  /\ \E r \in inflight : r.phase = "json"

\* C12: a failure of a request (network error, non-success status, parse
\* failure) ends its call: it is logged once and raised to the caller with
\* no value, the request is over, and the failing step issues no request.
C12_FailureIsTerminal ==
  [][RequestFailed(last')
       => /\ last'.logged = 1
          /\ {"value", "data"} \cap DOMAIN last' = {}
          /\ calls' = calls
          /\ \E r \in inflight :
               r.id = last'.id /\ inflight' = inflight \ {r}]_vars

\* A network failure has ended the second of two calls, and nothing is
\* left in flight.
C12_Witness ==
  /\ last.kind = "fail" /\ last.error = "network" /\ last.id = 2
  /\ calls = 2 /\ inflight = {}

\* C13: login does not check the session: once the POST to _login has
\* answered with a success status and a JSON body, login returns that user
\* record, whatever the session then holds.
C13_LoginUnchecked ==
  (last.kind \in {"fail", "return"} /\ last.op = "login"
     /\ ~RequestFailed(last))
    => /\ last.kind = "return"
       /\ last.value = last.data
       /\ last.value \in UserPayloads

\* login has returned the user record on a client holding neither
\* credential.
C13_Witness ==
  /\ last.kind = "return" /\ last.op = "login"
  /\ sid[last.client] = Null /\ csrfToken[last.client] = Null

\* The Post methods the claims call action methods.
PostActionMethods == {"Post.upvote", "Post.downvote", "Post.delete", "Post.edit"}

\* C14 as stated: once an action method of a Post wrapper has completed,
\* the wrapper it was called on holds the post the server returned.
C14_PostRefreshedAsStated ==
  (last.kind = "return" /\ last.method \in PostActionMethods)
    => \A f \in (DOMAIN last.data) \ {"comments"} :
         heap[last.self].obj[f] = last.data[f]

\* C14, amended: an action method of a Post wrapper that completes returns
\* a new Post wrapper, another object than the one it was called on,
\* holding the post the server returned; the wrapper it was called on
\* keeps the state it held.
C14_PostReturnsNew ==
  [][(last'.kind = "return" /\ last'.method \in PostActionMethods)
       => /\ last'.ref # last'.self
          /\ heap'[last'.self] = heap[last'.self]
          /\ last'.value.client = last'.client
          /\ \A f \in (DOMAIN last'.data) \ {"comments"} :
               last'.value[f] = last'.data[f]]_vars

\* upvote() on a held Post wrapper has returned a post with other vote
\* counts than the wrapper holds.
C14_Witness ==
  /\ last.kind = "return" /\ last.method = "Post.upvote"
  /\ last.value.upvotes = 5
  /\ heap[last.self].obj.upvotes = 1

\* C15: an action method of a Comment wrapper invokes the corresponding
\* client operation with the wrapper's own id (and post id), and on
\* completion the wrapper holds every field of the comment the server
\* returned and is itself the object returned; no other wrapper changes.
C15_CommentRefreshed ==
  [][/\ (last'.kind = "request" /\ last'.method \in RefreshingMethods)
          => LET this == heap[last'.self].obj
                 request == last'.request
                 commentURL(postId) ==
                   baseURL[this.client] \o <<"posts", "/">> \o postId
                     \o <<"/", "comments", "/">> \o this.id
             IN  /\ heap[last'.self].class = "Comment"
                 /\ last'.client = this.client
                 /\ last'.method = "Comment.upvote"
                      => /\ last'.op = "upvoteComment"
                         /\ request.body = [commentId |-> this.id, up |-> JSTrue]
                 /\ last'.method = "Comment.downvote"
                      => /\ last'.op = "downvoteComment"
                         /\ request.body = [commentId |-> this.id, up |-> JSFalse]
                 /\ last'.method = "Comment.delete"
                      => /\ last'.op = "deleteComment"
                         /\ request.method = "DELETE"
                         /\ request.url = commentURL(this.postId)
                 /\ last'.method = "Comment.edit"
                      => /\ last'.op = "updateComment"
                         /\ request.method = "PUT"
                         /\ request.url = commentURL(this.postPublicId)
     /\ (last'.kind = "return" /\ last'.method \in RefreshingMethods)
          => /\ last'.ref = last'.self
             /\ last'.value = heap'[last'.self].obj
             /\ \A f \in DOMAIN last'.data :
                  heap'[last'.self].obj[f] = last'.data[f]
             /\ heap'[last'.self].obj.client = heap[last'.self].obj.client
             /\ DOMAIN heap' = DOMAIN heap
             /\ \A o \in DOMAIN heap : o # last'.self => heap'[o] = heap[o]]_vars

\* edit() on a held Comment wrapper has returned that wrapper, now holding
\* the edited body.
C15_Witness ==
  /\ last.kind = "return" /\ last.method = "Comment.edit"
  /\ last.ref = last.self
  /\ heap[last.self].obj.body = <<"edited">>
  /\ last.data.body = <<"edited">>

C17_GetPostsParams ==
  (last.kind = "request" /\ last.op = "getPosts")
    => LET options == last.args
           q == last.request.search
       IN  /\ last.request.method = "GET"
           /\ Param(q, "feed") = IF "feed" \in DOMAIN options
                                 THEN options.feed ELSE <<"home">>
           /\ Param(q, "sort") = IF "sort" \in DOMAIN options
                                 THEN options.sort ELSE <<"latest">>
           /\ Param(q, "limit") = IF "limit" \in DOMAIN options
                                  THEN NumberToString(options.limit)
                                  ELSE <<"1", "0">>
           /\ \A key \in {"filter", "communityId", "next"} :
                Param(q, key) = Option(options, key)

\* C18: after construction the base URL ends with "/": a configured base
\* URL is kept, with a "/" added when it had none, and a client with no
\* configured base URL has the fallback; construction issues no request
\* and leaves the session empty.
C18_BaseURLNormalized ==
  /\ \A c \in Clients :
       /\ Len(baseURL[c]) > 0
       /\ baseURL[c][Len(baseURL[c])] = "/"
  /\ baseURL[1] \in {<<"https://example.org", "/">>,
                     <<"https://example.org", "/", "api", "/">>,
                     <<"http://discuit.net", "/", "api", "/">>}
  /\ baseURL[2] = <<"http://discuit.net", "/", "api", "/">>
  /\ constructor([baseURL |-> <<>>]).baseURL = <<"/">>
  /\ last.kind = "init"
       => /\ inflight = {} /\ calls = 0
          /\ \A c \in Clients : sid[c] = Null /\ csrfToken[c] = Null

\* A client configured with https://example.org/api has just been
\* constructed.
C18_Witness ==
  /\ last.kind = "init"
  /\ baseURL[1] = <<"https://example.org", "/", "api", "/">>

\* C19: the client offers loginWithSid(sid): the call succeeds and the
\* client then holds sid as its session id.
C19_LoginWithSid ==
  (Invoked(last) /\ last.op = "loginWithSid")
    => /\ last.kind # "fail"
       /\ sid[last.client] = last.args.sid

\* C20: a request carries X-Csrf-Token if and only if its method is not
\* GET and a CSRF token (a non-empty one) is held when the request is
\* built, and the header's value is then the held token.
C20_CsrfHeader ==
  last.kind = "request"
    => LET held == csrfToken[last.client]
           carried == last.request.headers.XCsrfToken
       IN  IF last.request.method # "GET" /\ held \notin {Null, <<>>}
           THEN carried = held
           ELSE carried = Undefined

\* A POST carries the held token after a GET, issued while the same token
\* was held, went without.
C20_Witness ==
  /\ last.kind = "request" /\ last.request.method = "POST" /\ last.id = 2
  /\ last.request.headers.XCsrfToken = <<"t">>
  /\ \E r \in inflight : r.id = 1 /\ r.op = "initialize" /\ r.phase = "json"

\* C21: every request carries a Cookie header composed of the held session
\* id and CSRF token, with the text null in place of a credential that is
\* unset.
C21_CookieHeader ==
  last.kind = "request"
    => LET text(v) == IF v = Null THEN <<"n", "u", "l", "l">> ELSE v
       IN  last.request.headers.Cookie =
             <<"S", "I", "D", "=">> \o text(sid[last.client])
               \o <<";", " ">>
               \o <<"c", "s", "r", "f", "t", "o", "k", "e", "n", "=">>
               \o text(csrfToken[last.client])

\* A request has gone out with a session id held and no CSRF token.
C21_Witness ==
  /\ last.kind = "request"
  /\ sid[last.client] = <<"a">> /\ csrfToken[last.client] = Null
  /\ Contains(last.request.headers.Cookie,
              <<"c", "s", "r", "f", "t", "o", "k", "e", "n", "=",
                "n", "u", "l", "l">>)

\* C22 as stated: whenever a response carries a csrf-token header, the CSRF
\* token held after it is the header's value.
C22_HeaderOverridesAsStated ==
  (Processed(last) /\ last.csrfHeader # Null)
    => csrfToken[last.client] = last.csrfHeader

\* C22, amended: when a response carries a csrf-token header with a
\* non-empty value, the CSRF token held after it is that value, whatever
\* csrftoken= cookie the response carries and also when it carries no
\* Set-Cookie entry; a csrf-token header with an empty value changes
\* nothing.
C22_HeaderOverrides ==
  Processed(last)
    => /\ last.csrfHeader \notin {Null, <<>>}
            => csrfToken[last.client] = last.csrfHeader
       /\ (last.csrfHeader = <<>> /\ ~last.carried.any)
            => csrfToken[last.client] = last.before.csrfToken

\* A response with no Set-Cookie entry has replaced a held CSRF token by
\* its csrf-token header.
C22_Witness ==
  /\ Processed(last) /\ ~last.carried.any
  /\ last.csrfHeader = <<"h">>
  /\ last.before.csrfToken = <<"t">>
  /\ csrfToken[last.client] = <<"h">>

\* C23: credentials are captured from every response of every operation,
\* whatever its status: once a response has been processed, also one the
\* operation fails on with an HTTP error, the session holds what the
\* response's SID cookie, csrftoken cookie and csrf-token header set.
C23_CapturedFromEveryResponse ==
  Processed(last)
    => LET c == last.client
       IN  /\ last.carried.sid
                => (sid[c] = expSid[c] /\ lastSidResp[c] = last.id)
           /\ last.carried.csrf => csrfToken[c] = expCsrf[c]

\* deletePost has failed with an HTTP error and its response has given the
\* client, which held no session, a session id and a CSRF token.
C23_Witness ==
  /\ last.kind = "fail" /\ last.error = "HTTP error!"
  /\ last.op = "deletePost" /\ last.status = 404
  /\ last.before.sid = Null /\ last.before.csrfToken = Null
  /\ sid[last.client] = <<"b">> /\ csrfToken[last.client] = <<"u">>

Unfilled(data) ==
  \/ data.type = <<"link">> /\ data.link \in {Undefined, <<>>}
  \/ data.type = <<"image">> /\ data.image \in {Undefined, <<>>}

C25_WholeValueStored ==
  Processed(last)
    => LET c == last.client
           sidCookie == CarriedCookie(last.cookies, SidCookiePrefix)
           csrfCookie == CarriedCookie(last.cookies, CsrfCookiePrefix)
       IN  /\ sidCookie # Undefined
                => sid[c] = RawValue(sidCookie, SidCookiePrefix)
           /\ (csrfCookie # Undefined /\ last.csrfHeader \in {Null, <<>>})
                => csrfToken[c] = RawValue(csrfCookie, CsrfCookiePrefix)

\* C26: a response changes only what it carries.  Without a Set-Cookie entry
\* that starts with SID= the session id is as before; without an entry that
\* starts with csrftoken= and without a csrf-token header the CSRF token is
\* as before; so a response carrying none of them changes neither, a
\* csrftoken= cookie never changes the session id and a SID= cookie never
\* changes the CSRF token.  A network failure changes neither.
C26_Frame ==
  LET c == last.client
      sameSid == sid[c] = last.before.sid
      sameCsrf == csrfToken[c] = last.before.csrfToken
  IN  /\ Processed(last)
           => /\ CarriedCookie(last.cookies, SidCookiePrefix) = Undefined
                   => sameSid
              /\ (/\ CarriedCookie(last.cookies, CsrfCookiePrefix) = Undefined
                  /\ last.csrfHeader = Null)
                   => sameCsrf
      /\ (last.kind = "fail" /\ last.error = "network")
           => sameSid /\ sameCsrf

\* A response carrying only a sid= entry, which is not a SID= entry, has left
\* the session a csrftoken= cookie and a SID= cookie had set as it was.
C26_Witness ==
  /\ Processed(last) /\ last.cookies = <<CookieOther>>
  /\ last.csrfHeader = Null
  /\ last.before = [sid |-> <<"a">>, csrfToken |-> <<"t">>]
  /\ sid[last.client] = <<"a">> /\ csrfToken[last.client] = <<"t">>

\* C27: when the client operation invoked by upvote, downvote, delete or
\* edit of a Comment wrapper fails, the method fails with the operation's
\* error, returns nothing, and every wrapper is as it was: from the
\* invocation on no step of the method but its successful return changes a
\* wrapper.
C27_FailureLeavesWrapper ==
  [][(last'.kind \in {"request", "response", "fail"}
        /\ last'.method \in RefreshingMethods)
       => /\ heap' = heap
          /\ last'.kind = "fail"
               => /\ last'.error \in {"network", "HTTP error!", "parse"}
                  /\ last'.op \in {"upvoteComment", "downvoteComment",
                                   "deleteComment", "updateComment"}
                  /\ "value" \notin DOMAIN last'
                  /\ ~\E r \in inflight' : r.id = last'.id]_vars

\* edit() on a held Comment wrapper has failed on the body of the response,
\* and the wrapper holds the body it held.
C27_Witness ==
  /\ last.kind = "fail" /\ last.method = "Comment.edit"
  /\ last.error = "parse"
  /\ heap[last.self].class = "Comment"
  /\ heap[last.self].obj.body \in {<<"first">>, <<"second">>}
  /\ inflight = {}

\* C28: the methods of one wrapper address one resource: Post.delete and
\* Post.edit send to posts/{X} with X the public ID the wrapper holds, and
\* Comment.delete and Comment.edit send to posts/{P}/comments/{id} with one
\* P, the public ID of the comment's post.
C28_SameResource ==
  (last.kind = "request"
     /\ last.method \in {"Post.delete", "Post.edit",
                         "Comment.delete", "Comment.edit"})
    => LET this == heap[last.self].obj
           posts == baseURL[this.client] \o <<"posts", "/">>
       IN  last.request.url =
             IF last.method \in {"Post.delete", "Post.edit"}
             THEN posts \o this.publicId
             ELSE posts \o this.postPublicId
                    \o <<"/", "comments", "/">> \o this.id

\* C29: the Cookie and X-Csrf-Token headers of a request are composed from
\* the session held when the operation is invoked, and the request in flight
\* keeps them whatever responses are processed before its own.
C29_HeadersFixedAtInvocation ==
  [][/\ last'.kind = "request"
          => LET c == last'.client
             IN  \E r \in inflight' \ inflight :
                   /\ r.id = last'.id
                   /\ r.headers = last'.request.headers
                   /\ r.headers.Cookie =
                        SidCookiePrefix \o TemplateStr(sid[c]) \o <<";", " ">>
                          \o CsrfCookiePrefix \o TemplateStr(csrfToken[c])
                   /\ r.headers.XCsrfToken =
                        IF last'.request.method # "GET"
                             /\ csrfToken[c] \notin {Null, <<>>}
                        THEN csrfToken[c] ELSE Undefined
     /\ \A r \in inflight, q \in inflight' :
          r.id = q.id => q.headers = r.headers]_vars

\* Two operations overlap on one client: the response to the first has given
\* the client a session, and the request started second, still awaiting its
\* response, carries the credentials held before, none.
C29_Witness ==
  /\ Processed(last) /\ last.id = 1
  /\ last.before = [sid |-> Null, csrfToken |-> Null]
  /\ sid[last.client] = <<"a">> /\ csrfToken[last.client] = <<"t">>
  /\ \E r \in inflight :
       /\ r.id = 2 /\ r.client = last.client /\ r.phase = "fetch"
       /\ r.headers.Cookie =
            SidCookiePrefix \o <<"n", "u", "l", "l", ";", " ">>
              \o CsrfCookiePrefix \o <<"n", "u", "l", "l">>
       /\ r.headers.XCsrfToken = Undefined

====
